---- MODULE Spec2Model ----
(***************************************************************************)
(* Model of the scene visibility subsystem of OpenGL_3D_Scene: the BSP     *)
(* tree (BSPTree.cpp / BSPTree.h), the items it holds (Item.cpp), and the  *)
(* scene manager that drives it every frame (SceneManagerBSP).             *)
(*                                                                         *)
(* Coordinates are integers in hundredths of a world unit.  The heap is    *)
(* explicit: every BSPTree node and every Item has an allocation state, so *)
(* that `delete` leaves dangling pointers behind exactly where the code    *)
(* does.  Dereferencing released memory is undefined behaviour; the model  *)
(* lets it either read the stale contents or fault the process.            *)
(***************************************************************************)
EXTENDS Integers, Sequences, FiniteSets, TLC

\* ------------------------------------------------------------------ bounds
\* number of items other than the root item that the caller constructs
MaxItems == 3
\* largest camera-to-object distance handed to the level-of-detail selection,
\* in world units
MaxDistance == 25
\* largest magnitude of the camera yaw the mouse is followed to, in degrees
MaxYaw == 720

\* ------------------------------------------------------- program constants
NULL == -1
Root == 0
rootItem == 0
normal == <<0, 0, 1>>
startPosition == <<0, 0, 0>>
\* last translateVec of Table::render, (0, -1.65, 0)
TableLocalOffset == <<0, -165, 0>>
\* tan(Fov / 2) for Camera::Fov = 75 degrees, as a fraction
TanHalfFovNum == 767
TanHalfFovDen == 1000
AspectNum == 16
AspectDen == 9
\* nearPlane 0.1 and farPlane 100 of isPointInFrustum, in hundredths
NearPlane == 10
FarPlane == 10000
\* default Euler angles of the camera and the pitch limit, in tenths of a
\* degree; MouseSensitivity 0.1 makes one pixel of mouse travel one tenth
YAW == -900
PITCH == -80
PitchLimit == 890
\* thresholds of Item::drawMeshBasedOnDistance, in thousandths of a unit
NearThreshold == 8000
FarThreshold == 19000

\* ------------------------------------------------------------ input sets
Items == 0 .. MaxItems
Nodes == 0 .. MaxItems
\* the last item of the catalog is the self-animating one
IsFireFly(i) == i = MaxItems
\* z-coordinates items are constructed at (on the axis through the root)
CtorPositions == {<<0, 0, -500>>, <<0, 0, 0>>, <<0, 0, 500>>}
\* translation of the Transform each item is constructed with: the root table
\* and the firefly get the default Transform, the other tables are placed
TableTranslation == <<-2000, 0, -500>>
transformData(i) == IF i = rootItem \/ IsFireFly(i) THEN startPosition
                    ELSE TableTranslation
\* x and y a firefly can be at after FireFly::move
FlyOffsets == {<<0, 0>>, <<10, 10>>}
Cameras ==
    { [Position |-> <<0, 0, 1000>>,  Front |-> <<0, 0, -1>>, Up |-> <<0, 1, 0>>],
      [Position |-> <<0, 0, -1000>>, Front |-> <<0, 0, 1>>,  Up |-> <<0, 1, 0>>],
      [Position |-> <<0, 0, -200>>,  Front |-> <<0, 0, -1>>, Up |-> <<0, 1, 0>>] }

VARIABLES
    position,       \* Item::position of every item
    itemState,      \* "new" (caller-owned), "owned" (inserted and live),
                    \* "removed" (deleted by remove), "freed" (deleted by ~BSPTree)
    partitionItem,  \* BSPTree::partitionItem of every node
    front,          \* BSPTree::front
    back,           \* BSPTree::back
    nodeState,      \* "unalloc", "live", "freed"
    result,         \* BSPTree::result of the root node
    fault,          \* the process has crashed on undefined behaviour
    lod,            \* last Item::drawMeshBasedOnDistance: distance and mesh drawn
    frustum,        \* last BSPTree::isPointInFrustum: camera, point and verdict
    euler           \* Camera::Yaw and Camera::Pitch, in tenths of a degree

vars == <<position, itemState, partitionItem, front, back,
          nodeState, result, fault, lod, frustum, euler>>

\* the records of the two stand-alone functions and the camera angles
probes == <<lod, frustum, euler>>

heap == <<partitionItem, front, back, nodeState, itemState>>

\* ---------------------------------------------------------------- vectors
Dot(a, b) == a[1] * b[1] + a[2] * b[2] + a[3] * b[3]
Sub(a, b) == <<a[1] - b[1], a[2] - b[2], a[3] - b[3]>>
Add(a, b) == <<a[1] + b[1], a[2] + b[2], a[3] + b[3]>>
Cross(a, b) == <<a[2] * b[3] - a[3] * b[2],
                 a[3] * b[1] - a[1] * b[3],
                 a[1] * b[2] - a[2] * b[1]>>

SeqToSet(s) == {s[k] : k \in 1 .. Len(s)}

\* ------------------------------------------------------------- allocation
\* `new BSPTree(item)`: the next unused node
NewNode == CHOOSE n \in Nodes : nodeState[n] = "unalloc" /\
                                \A m \in Nodes : nodeState[m] = "unalloc" => n <= m

\* a node or its anchor has been released
ItemReleased(i) == itemState[i] \in {"removed", "freed"}
Released(n) ==
    \/ nodeState[n] = "freed"
    \/ partitionItem[n] # NULL /\ ItemReleased(partitionItem[n])

\* the scene manager exists and the process has not crashed
Alive == ~fault /\ nodeState[Root] = "live"

\* `partitionItem->position` on a root constructed without an anchor: the null
\* pointer is dereferenced and the process dies
NullDeref ==
    /\ fault' = TRUE
    /\ UNCHANGED <<position, itemState, partitionItem, front, back,
                   nodeState, result>>

\* ------------------------------------------------------------------ insert
\* the comparison that sends an item on the plane to the back
Side_ZeroToBack(n, item) ==
    LET relativePosition == Sub(position[item], position[partitionItem[n]])
        dotProduct == Dot(relativePosition, normal)
    IN IF dotProduct <= 0 THEN "back" ELSE "front"

\* the comparison with front and back exchanged
Side_Flipped(n, item) ==
    LET relativePosition == Sub(position[item], position[partitionItem[n]])
        dotProduct == Dot(relativePosition, normal)
    IN IF dotProduct < 0 THEN "front" ELSE "back"

\* side of `n` that insert/remove descend into for `item`
Side(n, item) ==
    LET relativePosition == Sub(position[item], position[partitionItem[n]])
        dotProduct == Dot(relativePosition, normal)
    IN IF dotProduct < 0 THEN "back" ELSE "front"

Child(n, side) == IF side = "back" THEN back[n] ELSE front[n]

\* the descent that never leaves the node it starts at
InsertPath_StopsAtRoot(n, item) == <<n>>

\* nodes BSPTree::insert visits, root first; the last one gets the new leaf
RECURSIVE InsertPath(_, _)
InsertPath(n, item) ==
    IF Child(n, Side(n, item)) # NULL
        THEN <<n>> \o InsertPath(Child(n, Side(n, item)), item)
        ELSE <<n>>

Insert(item) ==
    /\ Alive
    /\ UNCHANGED probes
    /\ itemState[item] = "new"
    /\ \A j \in Items : j < item => itemState[j] # "new"
    /\ IF partitionItem[Root] = NULL THEN NullDeref
       ELSE
       LET path == InsertPath(Root, item)
           parent == path[Len(path)]
           side == Side(parent, item)
           nn == NewNode
       IN \/ /\ partitionItem' = [partitionItem EXCEPT ![nn] = item]
             /\ nodeState' = [nodeState EXCEPT ![nn] = "live"]
             /\ front' = IF side = "front" THEN [front EXCEPT ![parent] = nn] ELSE front
             /\ back' = IF side = "back" THEN [back EXCEPT ![parent] = nn] ELSE back
             /\ itemState' = [itemState EXCEPT ![item] = "owned"]
             /\ UNCHANGED <<position, result, fault>>
          \/ /\ \E k \in 1 .. Len(path) : Released(path[k])
             /\ fault' = TRUE
             /\ UNCHANGED <<position, itemState, partitionItem, front,
                            back, nodeState, result>>

\* ------------------------------------------------------------------- remove
RECURSIVE Rightmost(_)
Rightmost(n) == IF front[n] # NULL THEN Rightmost(front[n]) ELSE n

\* the merge that hangs the back subtree on the top node of the front subtree
mergeSubtrees_AttachAtTop(f, b) ==
    IF f = NULL THEN [root |-> b, front |-> front]
    ELSE IF b = NULL THEN [root |-> f, front |-> front]
    ELSE [root |-> f, front |-> [front EXCEPT ![f] = b]]

\* BSPTree::mergeSubtrees: the merged root and the front links after it
mergeSubtrees(f, b) ==
    IF f = NULL THEN [root |-> b, front |-> front]
    ELSE IF b = NULL THEN [root |-> f, front |-> front]
    ELSE [root |-> f, front |-> [front EXCEPT ![Rightmost(f)] = b]]

\* nodes whose front pointer mergeSubtrees reads
RECURSIVE FrontChain(_)
FrontChain(n) == IF n = NULL THEN {} ELSE {n} \cup FrontChain(front[n])

\* the descent that matches a child by the position of its anchor
RECURSIVE RemoveFind_ByPosition(_, _)
RemoveFind_ByPosition(n, item) ==
    LET side == Side(n, item)
        c == Child(n, side)
    IN IF c = NULL THEN [found |-> FALSE, parent |-> n, side |-> side, visited |-> {n}]
       ELSE IF position[partitionItem[c]] = position[item]
           THEN [found |-> TRUE, parent |-> n, side |-> side, visited |-> {n, c}]
           ELSE LET r == RemoveFind_ByPosition(c, item)
                IN [r EXCEPT !.visited = r.visited \cup {n}]

\* descent of BSPTree::remove: nodes visited and, when the anchor of a child
\* is `item` itself, the parent and side where it was found
RECURSIVE RemoveFind(_, _)
RemoveFind(n, item) ==
    LET side == Side(n, item)
        c == Child(n, side)
    IN IF c = NULL THEN [found |-> FALSE, parent |-> n, side |-> side, visited |-> {n}]
       ELSE IF partitionItem[c] = item
           THEN [found |-> TRUE, parent |-> n, side |-> side, visited |-> {n, c}]
           ELSE LET r == RemoveFind(c, item)
                IN [r EXCEPT !.visited = r.visited \cup {n}]

\* nodes under `n` through the given links, `n` included
RECURSIVE Subtree(_, _, _)
Subtree(n, fr, bk) ==
    IF n = NULL THEN {}
    ELSE {n} \cup Subtree(fr[n], fr, bk) \cup Subtree(bk[n], fr, bk)

\* the removal that hands the anchor back instead of deleting it
Remove_KeepsAnchor(item) ==
    /\ Alive
    /\ UNCHANGED probes
    /\ IF partitionItem[Root] = NULL THEN NullDeref
       ELSE
       LET r == RemoveFind(Root, item)
           temp == Child(r.parent, r.side)
           m == mergeSubtrees(front[temp], back[temp])
           \* ~BSPTree runs on temp with its front and back still set
           destroyed == Subtree(temp, m.front, back)
           staleRead == \/ ItemReleased(item)
                        \/ \E n \in r.visited : Released(n)
                        \/ r.found /\ \E n \in FrontChain(front[temp]) : Released(n)
           doubleFree == r.found /\
                         (\/ front[temp] # NULL /\ back[temp] # NULL
                          \/ \E n \in destroyed : Released(n))
       IN \/ /\ r.found
             /\ front' = IF r.side = "front"
                            THEN [m.front EXCEPT ![r.parent] = m.root]
                            ELSE m.front
             /\ back' = IF r.side = "back"
                           THEN [back EXCEPT ![r.parent] = m.root]
                           ELSE back
             /\ nodeState' = [n \in Nodes |->
                                 IF n \in destroyed THEN "freed" ELSE nodeState[n]]
             /\ itemState' = [i \in Items |->
                                 IF i = item THEN itemState[i]
                                 ELSE IF \E n \in destroyed : partitionItem[n] = i
                                     THEN "freed" ELSE itemState[i]]
             /\ UNCHANGED <<position, partitionItem, result, fault>>
          \/ /\ ~r.found
             /\ UNCHANGED <<position, itemState, partitionItem, front,
                            back, nodeState, result, fault>>
          \/ /\ staleRead \/ doubleFree
             /\ fault' = TRUE
             /\ UNCHANGED <<position, itemState, partitionItem, front,
                            back, nodeState, result>>

\* BSPTree::remove, with the ~BSPTree cascade that `delete temp` starts
Remove(item) ==
    /\ Alive
    /\ UNCHANGED probes
    /\ IF partitionItem[Root] = NULL THEN NullDeref
       ELSE
       LET r == RemoveFind(Root, item)
           temp == Child(r.parent, r.side)
           m == mergeSubtrees(front[temp], back[temp])
           \* ~BSPTree runs on temp with its front and back still set
           destroyed == Subtree(temp, m.front, back)
           staleRead == \/ ItemReleased(item)
                        \/ \E n \in r.visited : Released(n)
                        \/ r.found /\ \E n \in FrontChain(front[temp]) : Released(n)
           doubleFree == r.found /\
                         (\/ front[temp] # NULL /\ back[temp] # NULL
                          \/ \E n \in destroyed : Released(n))
       IN \/ /\ r.found
             /\ front' = IF r.side = "front"
                            THEN [m.front EXCEPT ![r.parent] = m.root]
                            ELSE m.front
             /\ back' = IF r.side = "back"
                           THEN [back EXCEPT ![r.parent] = m.root]
                           ELSE back
             /\ nodeState' = [n \in Nodes |->
                                 IF n \in destroyed THEN "freed" ELSE nodeState[n]]
             /\ itemState' = [i \in Items |->
                                 IF i = item THEN "removed"
                                 ELSE IF \E n \in destroyed : partitionItem[n] = i
                                     THEN "freed" ELSE itemState[i]]
             /\ UNCHANGED <<position, partitionItem, result, fault>>
          \/ /\ ~r.found
             /\ UNCHANGED <<position, itemState, partitionItem, front,
                            back, nodeState, result, fault>>
          \/ /\ staleRead \/ doubleFree
             /\ fault' = TRUE
             /\ UNCHANGED <<position, itemState, partitionItem, front,
                            back, nodeState, result>>

\* ------------------------------------------------------------------- query
\* the near-plane test taken the wrong way round
isPointInFrustum_NearReversed(point, cam) ==
    LET right == Cross(cam.Front, cam.Up)
        up == Cross(right, cam.Front)
        d == Sub(point, cam.Position)
        f == Dot(d, cam.Front)
        u == Dot(d, up)
        r == Dot(d, right)
    IN /\ TanHalfFovDen * f + TanHalfFovNum * u >= 0
       /\ TanHalfFovDen * f - TanHalfFovNum * u >= 0
       /\ TanHalfFovDen * AspectDen * f + TanHalfFovNum * AspectNum * r >= 0
       /\ TanHalfFovDen * AspectDen * f - TanHalfFovNum * AspectNum * r >= 0
       /\ 0 - f >= 0
       /\ f >= 0


\* BSPTree::isPointInFrustum, each dot product scaled by a positive factor
isPointInFrustum(point, cam) ==
    LET right == Cross(cam.Front, cam.Up)
        up == Cross(right, cam.Front)
        d == Sub(point, cam.Position)
        f == Dot(d, cam.Front)
        u == Dot(d, up)
        r == Dot(d, right)
    IN /\ TanHalfFovDen * f + TanHalfFovNum * u >= 0
       /\ TanHalfFovDen * f - TanHalfFovNum * u >= 0
       /\ TanHalfFovDen * AspectDen * f + TanHalfFovNum * AspectNum * r >= 0
       /\ TanHalfFovDen * AspectDen * f - TanHalfFovNum * AspectNum * r >= 0
       /\ f >= 0
       /\ f >= 0

\* the camera-to-item vector taken the wrong way round
isInFront_Reversed(n, cam) ==
    Dot(Sub(cam.Position, position[partitionItem[n]]), cam.Front) > 0

\* BSPTree::getAllFrontItems, lines 167-170
isInFront(n, cam) ==
    Dot(Sub(position[partitionItem[n]], cam.Position), cam.Front) > 0

\* the frustum filter never applied
isInFrustum_Unchecked(n, cam, chk) == TRUE

\* the flag read the wrong way round: the test applies when it is off
isInFrustum_FlagInverted(n, cam, chk) ==
    chk \/ isPointInFrustum(position[partitionItem[n]], cam)

isInFrustum(n, cam, chk) ==
    ~chk \/ isPointInFrustum(position[partitionItem[n]], cam)

\* the traversal with the front subtree emitted before the anchor and the back
RECURSIVE getAllFrontItems_FrontFirst(_, _, _, _)
getAllFrontItems_FrontFirst(n, cam, res, chk) ==
    IF n = NULL THEN res
    ELSE IF partitionItem[n] = NULL THEN res
    ELSE IF Dot(Sub(position[partitionItem[n]], cam.Position), cam.Front) > 0
            /\ (~chk \/ isPointInFrustum(position[partitionItem[n]], cam))
        THEN getAllFrontItems_FrontFirst(back[n], cam,
                 Append(getAllFrontItems_FrontFirst(front[n], cam, res, chk),
                        partitionItem[n]),
                 chk)
        ELSE getAllFrontItems_FrontFirst(front[n], cam, res, chk)

\* the traversal that appends the anchor before it descends into back
RECURSIVE getAllFrontItems_AnchorFirst(_, _, _, _)
getAllFrontItems_AnchorFirst(n, cam, res, chk) ==
    IF n = NULL THEN res
    ELSE IF partitionItem[n] = NULL THEN res
    ELSE IF Dot(Sub(position[partitionItem[n]], cam.Position), cam.Front) > 0
            /\ (~chk \/ isPointInFrustum(position[partitionItem[n]], cam))
        THEN getAllFrontItems_AnchorFirst(front[n], cam,
                 getAllFrontItems_AnchorFirst(back[n], cam,
                     Append(res, partitionItem[n]), chk),
                 chk)
        ELSE getAllFrontItems_AnchorFirst(front[n], cam, res, chk)

\* the traversal that descends into back whether or not the anchor is emitted
RECURSIVE getAllFrontItems_BackAlways(_, _, _, _)
getAllFrontItems_BackAlways(n, cam, res, chk) ==
    IF n = NULL THEN res
    ELSE IF partitionItem[n] = NULL THEN res
    ELSE IF Dot(Sub(position[partitionItem[n]], cam.Position), cam.Front) > 0
            /\ (~chk \/ isPointInFrustum(position[partitionItem[n]], cam))
        THEN getAllFrontItems_BackAlways(front[n], cam,
                 Append(getAllFrontItems_BackAlways(back[n], cam, res, chk),
                        partitionItem[n]),
                 chk)
        ELSE getAllFrontItems_BackAlways(front[n], cam,
                 getAllFrontItems_BackAlways(back[n], cam, res, chk), chk)

\* BSPTree::getAllFrontItems: `res` with the visible anchors appended
RECURSIVE getAllFrontItems(_, _, _, _)
getAllFrontItems(n, cam, res, chk) ==
    IF n = NULL THEN res
    ELSE IF partitionItem[n] = NULL THEN res
    ELSE IF isInFront(n, cam) /\ isInFrustum(n, cam, chk)
        THEN getAllFrontItems(front[n], cam,
                 Append(getAllFrontItems(back[n], cam, res, chk), partitionItem[n]),
                 chk)
        ELSE getAllFrontItems(front[n], cam, res, chk)

\* nodes the traversal dereferences
RECURSIVE Visited(_, _, _)
Visited(n, cam, chk) ==
    IF n = NULL THEN {}
    ELSE IF partitionItem[n] = NULL THEN {n}
    ELSE IF isInFront(n, cam) /\ isInFrustum(n, cam, chk)
        THEN {n} \cup Visited(back[n], cam, chk) \cup Visited(front[n], cam, chk)
        ELSE {n} \cup Visited(front[n], cam, chk)

\* BSPTree::getCurrentFrontItems on the root: clear, then collect
getCurrentFrontItems(prev, cam, chk) ==
    LET cleared == SubSeq(prev, 1, 0)
    IN getAllFrontItems(Root, cam, cleared, chk)

Query(cam, chk) ==
    /\ Alive
    /\ UNCHANGED probes
    /\ \/ /\ result' = getCurrentFrontItems(result, cam, chk)
          /\ UNCHANGED <<position, itemState, partitionItem, front, back,
                         nodeState, fault>>
       \/ /\ \E n \in Visited(Root, cam, chk) : Released(n)
          /\ fault' = TRUE
          /\ UNCHANGED <<position, itemState, partitionItem, front, back,
                         nodeState, result>>

\* ---------------------------------------------------------------- teardown
\* number of times the ~BSPTree cascade started at node m reaches node n
RECURSIVE DeleteCount(_, _)
DeleteCount(m, n) ==
    IF m = NULL THEN 0
    ELSE (IF front[m] = n THEN 1 ELSE 0) + (IF back[m] = n THEN 1 ELSE 0)
         + DeleteCount(front[m], n) + DeleteCount(back[m], n)

\* the destructor that forgets the back subtree
Teardown_LeaksBack ==
    /\ Alive
    /\ UNCHANGED probes
    /\ LET destroyed == Subtree(front[Root], front, back)
           doubleFree == \E n \in destroyed : Released(n) \/ DeleteCount(Root, n) > 1
       IN \/ /\ nodeState' = [n \in Nodes |->
                                 IF n = Root \/ n \in destroyed THEN "freed"
                                 ELSE nodeState[n]]
             /\ itemState' = [i \in Items |->
                                 IF \E n \in destroyed : partitionItem[n] = i
                                     THEN "freed" ELSE itemState[i]]
             /\ UNCHANGED <<position, partitionItem, front, back, result, fault>>
          \/ /\ doubleFree
             /\ fault' = TRUE
             /\ UNCHANGED <<position, itemState, partitionItem, front,
                            back, nodeState, result>>

\* ~SceneManagerBSP: `delete bsptree`, whose ~BSPTree deletes every descendant
\* node and its anchor; the root's own anchor is not deleted
Teardown ==
    /\ Alive
    /\ UNCHANGED probes
    /\ LET destroyed == Subtree(front[Root], front, back)
                        \cup Subtree(back[Root], front, back)
           doubleFree == \E n \in destroyed : Released(n) \/ DeleteCount(Root, n) > 1
       IN \/ /\ nodeState' = [n \in Nodes |->
                                 IF n = Root \/ n \in destroyed THEN "freed"
                                 ELSE nodeState[n]]
             /\ itemState' = [i \in Items |->
                                 IF \E n \in destroyed : partitionItem[n] = i
                                     THEN "freed" ELSE itemState[i]]
             /\ UNCHANGED <<position, partitionItem, front, back, result, fault>>
          \/ /\ doubleFree
             /\ fault' = TRUE
             /\ UNCHANGED <<position, itemState, partitionItem, front,
                            back, nodeState, result>>

\* ------------------------------------------------------------------ render
\* position an item's render() leaves behind (the last Item::drawObject)
RenderedPosition(i) ==
    IF IsFireFly(i) THEN Add(transformData(i), position[i])
    ELSE Add(transformData(i), TableLocalOffset)

\* FireFly::move from p with the random step landing on offset o: x and y
\* change, z does not
MoveTo(p, o) == <<o[1], o[2], p[3]>>
MoveTargets(p) == {MoveTo(p, o) : o \in FlyOffsets}

\* the calls of a loop followed by a move of the firefly, listed or not
RECURSIVE FrameCalls_MoveEveryFly(_)
FrameCalls_MoveEveryFly(list) ==
    IF list = <<>> THEN <<[op |-> "move", item |-> MaxItems]>>
    ELSE (IF IsFireFly(Head(list))
              THEN <<[op |-> "render", item |-> Head(list)],
                     [op |-> "move", item |-> Head(list)]>>
              ELSE <<[op |-> "render", item |-> Head(list)]>>)
         \o FrameCalls_MoveEveryFly(Tail(list))

\* the calls of the loop that update before they render
RECURSIVE FrameCalls_MoveFirst(_)
FrameCalls_MoveFirst(list) ==
    IF list = <<>> THEN <<>>
    ELSE (IF IsFireFly(Head(list))
              THEN <<[op |-> "move", item |-> Head(list)],
                     [op |-> "render", item |-> Head(list)]>>
              ELSE <<[op |-> "render", item |-> Head(list)]>>)
         \o FrameCalls_MoveFirst(Tail(list))

\* the calls the loop of renderScene makes for a visible list: render() on
\* each item and, for a FireFly, move(deltaTime) right after
RECURSIVE FrameCalls(_)
FrameCalls(list) ==
    IF list = <<>> THEN <<>>
    ELSE (IF IsFireFly(Head(list))
              THEN <<[op |-> "render", item |-> Head(list)],
                     [op |-> "move", item |-> Head(list)]>>
              ELSE <<[op |-> "render", item |-> Head(list)]>>)
         \o FrameCalls(Tail(list))

\* position of item i after its render() when the positions are pos
RenderedAt(pos, i) ==
    IF IsFireFly(i) THEN Add(transformData(i), pos[i])
    ELSE Add(transformData(i), TableLocalOffset)

\* the calls where a move displaces every item
RECURSIVE RunCalls_MoveAll(_, _, _)
RunCalls_MoveAll(pos, calls, o) ==
    IF calls = <<>> THEN pos
    ELSE LET c == Head(calls)
             next == IF c.op = "render"
                         THEN [pos EXCEPT ![c.item] = RenderedAt(pos, c.item)]
                         ELSE [i \in Items |-> MoveTo(pos[i], o)]
         IN RunCalls_MoveAll(next, Tail(calls), o)

\* the positions after the calls have run in order, the move landing on o
RECURSIVE RunCalls(_, _, _)
RunCalls(pos, calls, o) ==
    IF calls = <<>> THEN pos
    ELSE LET c == Head(calls)
             next == IF c.op = "render"
                         THEN [pos EXCEPT ![c.item] = RenderedAt(pos, c.item)]
                         ELSE [pos EXCEPT ![c.item] = MoveTo(pos[c.item], o)]
         IN RunCalls(next, Tail(calls), o)

\* SceneManagerBSP::renderScene with the camera and flag of this frame
RenderScene(cam, chk) ==
    /\ Alive
    /\ UNCHANGED probes
    /\ LET visibleItems == getCurrentFrontItems(result, cam, chk)
       IN \/ /\ result' = visibleItems
             /\ \E o \in FlyOffsets :
                    position' = RunCalls(position, FrameCalls(visibleItems), o)
             /\ UNCHANGED <<itemState, partitionItem, front, back, nodeState, fault>>
          \/ /\ \E n \in Visited(Root, cam, chk) : Released(n)
             /\ fault' = TRUE
             /\ UNCHANGED <<position, itemState, partitionItem, front, back,
                            nodeState, result>>

\* ---------------------------------------------------------- level of detail
\* distances, in thousandths of a unit, the selection is applied to
Distances == {250 * k : k \in 0 .. 4 * MaxDistance}
             \cup {NearThreshold - 1, FarThreshold + 1}

NoDraw == [distance |-> 0, mesh |-> "unset"]

\* Item::drawMeshBasedOnDistance: the mesh drawn at a distance
drawMeshBasedOnDistance_FarExclusive(distance) ==
    IF distance < NearThreshold THEN "high"
    ELSE IF distance < FarThreshold THEN "low"
    ELSE "none"

drawMeshBasedOnDistance(distance) ==
    IF distance < NearThreshold THEN "high"
    ELSE IF distance <= FarThreshold THEN "low"
    ELSE "none"

\* one call of Item::drawMeshBasedOnDistance at camera distance d
DrawMesh(d) ==
    /\ lod' = [distance |-> d, mesh |-> drawMeshBasedOnDistance(d)]
    /\ UNCHANGED <<position, heap, result, fault, frustum, euler>>

\* ------------------------------------------------------------ frustum test
Scale(v, k) == <<k * v[1], k * v[2], k * v[3]>>

AxisDirections == {<<1, 0, 0>>, <<-1, 0, 0>>, <<0, 1, 0>>, <<0, -1, 0>>,
                   <<0, 0, 1>>, <<0, 0, -1>>}

\* cameras with an orthonormal basis, at two positions
FrustumCameras ==
    {c \in [Position : {<<0, 0, 0>>, <<0, 340, 620>>},
            Front : AxisDirections, Up : AxisDirections] : Dot(c.Front, c.Up) = 0}

\* depths along the forward axis and sideways offsets of the tested points
AxisDepths == {-5000, NearPlane, 5000, FarPlane}
SideOffsets == {-9000, 0, 9000}

FrustumPoints(cam) ==
    {Add(Add(cam.Position, Scale(cam.Front, d)), Scale(cam.Up, o)) :
        d \in AxisDepths, o \in SideOffsets}

NoTest == [camera |-> CHOOSE c \in FrustumCameras : TRUE,
           point |-> <<0, 0, 0>>, tested |-> FALSE, visible |-> FALSE]

\* one call of BSPTree::isPointInFrustum
TestPoint(cam, point) ==
    /\ frustum' = [camera |-> cam, point |-> point, tested |-> TRUE,
                   visible |-> isPointInFrustum(point, cam)]
    /\ UNCHANGED <<position, heap, result, fault, lod, euler>>

\* ----------------------------------------------------------- camera angles
\* mouse travel per callback, in pixels
MouseOffsets == {-900, -450, 0, 450, 900}

Clamp(v, lo, hi) == IF v > hi THEN hi ELSE IF v < lo THEN lo ELSE v

\* Camera::ProcessMouseMovement with constrainPitch; Front, Right and Up are
\* recomputed from Yaw and Pitch by updateCameraVectors and hold no state of
\* their own
ProcessMouseMovement(xoffset, yoffset) ==
    /\ euler.Yaw + xoffset <= 10 * MaxYaw
    /\ euler.Yaw + xoffset >= 0 - 10 * MaxYaw
    /\ euler' = [Yaw |-> euler.Yaw + xoffset,
                 Pitch |-> Clamp(euler.Pitch + yoffset, 0 - PitchLimit, PitchLimit)]
    /\ UNCHANGED <<position, heap, result, fault, lod, frustum>>

\* Camera::InvertFront
InvertFront ==
    /\ euler' = [euler EXCEPT !.Yaw = IF euler.Yaw + 1800 > 3600
                                          THEN euler.Yaw + 1800 - 3600
                                          ELSE euler.Yaw + 1800]
    /\ UNCHANGED <<position, heap, result, fault, lod, frustum>>

\* ------------------------------------------------------------ specification
Init ==
    /\ position \in [Items -> CtorPositions]
    /\ position[rootItem] = startPosition
    /\ \E anchor \in {rootItem, NULL} :
          /\ itemState = [i \in Items |->
                             IF i = anchor THEN "owned" ELSE "new"]
          /\ partitionItem = [n \in Nodes |-> IF n = Root THEN anchor ELSE NULL]
    /\ front = [n \in Nodes |-> NULL]
    /\ back = [n \in Nodes |-> NULL]
    /\ nodeState = [n \in Nodes |-> IF n = Root THEN "live" ELSE "unalloc"]
    /\ result = <<>>
    /\ fault = FALSE
    /\ lod = NoDraw
    /\ frustum = NoTest
    /\ euler = [Yaw |-> YAW, Pitch |-> PITCH]

Next ==
    \/ \E item \in Items : Insert(item)
    \/ \E item \in Items : Remove(item)
    \/ \E cam \in Cameras, chk \in BOOLEAN : Query(cam, chk)
    \/ \E cam \in Cameras, chk \in BOOLEAN : RenderScene(cam, chk)
    \/ Teardown

Spec == Init /\ [][Next]_vars

\* the stand-alone functions run against the freshly constructed scene
InitStandalone ==
    /\ Init
    /\ position = [i \in Items |-> startPosition]
    /\ partitionItem[Root] = rootItem

\* the level-of-detail selection applied to every distance
NextLOD == \E d \in Distances : DrawMesh(d)

SpecLOD == InitStandalone /\ [][NextLOD]_vars

\* the frustum test applied to points around every camera
NextFrustum == \E cam \in FrustumCameras : \E point \in FrustumPoints(cam) : TestPoint(cam, point)

SpecFrustum == InitStandalone /\ [][NextFrustum]_vars

\* the camera turned by the mouse and by the R key
NextCamera ==
    \/ \E xoffset, yoffset \in MouseOffsets : ProcessMouseMovement(xoffset, yoffset)
    \/ InvertFront

SpecCamera == InitStandalone /\ [][NextCamera]_vars

TypeOK ==
    /\ lod.distance \in Nat
    /\ frustum.visible \in BOOLEAN
    /\ \A i \in Items : Len(position[i]) = 3
    /\ itemState \in [Items -> {"new", "owned", "removed", "freed"}]
    /\ nodeState \in [Nodes -> {"unalloc", "live", "freed"}]
    /\ fault \in BOOLEAN

\* ------------------------------------------------- vocabulary of the claims
\* nodes reachable from `n` through live nodes only
RECURSIVE LiveSubtree(_)
LiveSubtree(n) ==
    IF n = NULL THEN {}
    ELSE IF nodeState[n] # "live" THEN {}
    ELSE {n} \cup LiveSubtree(front[n]) \cup LiveSubtree(back[n])

\* nodes the stored pointers lead to from the root, released or not
Linked == Subtree(Root, front, back)

\* o is a live object anchoring a live node reachable from the root
Resident(o) ==
    /\ itemState[o] = "owned"
    /\ \E n \in LiveSubtree(Root) : partitionItem[n] = o

\* some node the root's pointers lead to is anchored on o
AnchorLinked(o) == \E n \in Linked : partitionItem[n] = o

\* no pointer of the tree leads to released memory
NoDangling == \A n \in Linked : ~Released(n)

\* no render and no move has changed a position since construction
Unmoved == \A i \in Items : position[i] \in CtorPositions

\* the camera that every modelled position lies in front of
AllSeeing == CHOOSE c \in Cameras : c.Position = <<0, 0, 1000>>

Zof(i) == Dot(position[i], normal)

\* remove(o) matches a node that has both a front and a back child
HasBothChildren(o) ==
    LET r == RemoveFind(Root, o)
    IN /\ partitionItem[Root] # NULL
       /\ r.found
       /\ front[Child(r.parent, r.side)] # NULL
       /\ back[Child(r.parent, r.side)] # NULL

\* the node anchored on o has no children
IsLeafAnchor(o) ==
    \A n \in Linked : partitionItem[n] = o => (front[n] = NULL /\ back[n] = NULL)

\* every anchor lies on the side of each ancestor that the link to it says
ClassificationOK ==
    \A n \in Linked :
        /\ \A m \in Subtree(back[n], front, back) :
               Dot(Sub(position[partitionItem[m]], position[partitionItem[n]]), normal) <= 0
        /\ \A m \in Subtree(front[n], front, back) :
               Dot(Sub(position[partitionItem[m]], position[partitionItem[n]]), normal) >= 0

C2_RoundTripEmpty ==
    [][\A o \in Items \ {rootItem} :
          (/\ Remove(o)
           /\ Unmoved
           /\ itemState[o] \in {"owned", "freed"}
           /\ \A p \in Items \ {rootItem, o} : itemState[p] \in {"new", "removed"}) =>
              /\ ~fault'
              /\ \A cam \in Cameras, chk \in BOOLEAN :
                    (SeqToSet(getCurrentFrontItems(result, cam, chk)) \subseteq {rootItem})'
      ]_vars

\* C3: remove(item) finds the item whenever it is resident: in every state,
\* for every resident non-root item, the descent of remove reaches the node
\* anchored on it (and so unlinks it).
C3_RemoveFindsResident ==
    \A o \in Items \ {rootItem} :
        (Resident(o) /\ NoDangling) => RemoveFind(Root, o).found

C5_ExactlyOneNode ==
    /\ \A o \in Items :
          (nodeState[Root] = "live" /\ itemState[o] \in {"owned", "freed"}) =>
              Cardinality({n \in LiveSubtree(Root) : partitionItem[n] = o}) = 1
    /\ \A o \in Items :
          Cardinality({n \in Nodes : nodeState[n] = "live" /\ partitionItem[n] = o}) <= 1

\* C6: with two resident objects x and y at the same position, remove(x)
\* releases the node anchored on x and nothing else; y stays resident.
C6_RemoveByIdentity ==
    [][\A x, y \in Items \ {rootItem} :
          (/\ Remove(x)
           /\ x # y
           /\ Resident(x) /\ Resident(y)
           /\ position[x] = position[y]) =>
              /\ ~fault'
              /\ ~AnchorLinked(x)'
              /\ Resident(y)'
              /\ \A n \in Nodes : nodeState'[n] # nodeState[n] => partitionItem[n] = x
      ]_vars

\* C7: remove(o) of a live object that is not resident signals nothing and
\* changes neither the tree nor any object.
C7_RemoveMissingIsNoOp ==
    [][\A o \in Items :
          (/\ partitionItem[Root] # NULL
           /\ Remove(o) /\ ~ItemReleased(o) /\ ~Resident(o)) =>
              (~fault' /\ UNCHANGED <<position, heap, result>>)
      ]_vars

\* C8: the query clears the previous result, so its list depends on the tree,
\* the camera and the flag only; repeating it changes nothing; and it leaves
\* the tree and every position alone.
C8_QueryIdempotent ==
    [][\A cam \in Cameras, chk \in BOOLEAN :
          Query(cam, chk) =>
              /\ ~fault'
              /\ result' = getAllFrontItems(Root, cam, <<>>, chk)
              /\ (result = getAllFrontItems(Root, cam, <<>>, chk) => result' = result)
              /\ UNCHANGED <<position, heap>>
      ]_vars

\* the scene of the scenario: the root anchor at the origin with the leaf a
\* at (0,0,-5) and the leaf b at (0,0,5), and nothing else in the tree
Scenario(a, b) ==
    /\ a # b /\ a # rootItem /\ b # rootItem
    /\ Resident(a) /\ Resident(b)
    /\ position[rootItem] = <<0, 0, 0>>
    /\ position[a] = <<0, 0, -500>>
    /\ position[b] = <<0, 0, 500>>
    /\ {partitionItem[n] : n \in Linked} = {rootItem, a, b}
    /\ NoDangling

\* the camera of the scenario, at (0,0,10) facing (0,0,-1)
ScenarioCamera ==
    [Position |-> <<0, 0, 1000>>, Front |-> <<0, 0, -1>>, Up |-> <<0, 1, 0>>]

\* C9 as stated: in the scenario with the filter off the visible list excludes
\* b and contains a and the root anchor.
C9_ScenarioExcludesB ==
    \A a, b \in Items :
        Scenario(a, b) =>
            LET list == getCurrentFrontItems(result, ScenarioCamera, FALSE)
            IN /\ b \notin SeqToSet(list)
               /\ a \in SeqToSet(list)
               /\ rootItem \in SeqToSet(list)

\* C9 amended: in the scenario with the filter off the visible list is a, the
\* root anchor, b: b lies in front of the camera and is listed too.
C9_ScenarioList ==
    \A a, b \in Items :
        Scenario(a, b) =>
            getCurrentFrontItems(result, ScenarioCamera, FALSE) = <<a, rootItem, b>>

\* the scenario's scene right after its query
C9_Witness ==
    \E a, b \in Items : Scenario(a, b) /\ result = <<a, rootItem, b>>

\* depth of item i along the camera's forward vector
Depth(i, cam) == Dot(Sub(position[i], cam.Position), cam.Front)

Negated(v) == <<0 - v[1], 0 - v[2], 0 - v[3]>>

\* C10 as stated: whatever the tree and the camera, an item that precedes
\* another in the returned list is not deeper along the camera's forward.
C10_FrontToBack ==
    \A cam \in Cameras, chk \in BOOLEAN :
        NoDangling =>
            LET list == getCurrentFrontItems(result, cam, chk)
            IN \A i, j \in 1 .. Len(list) :
                   i < j => Depth(list[i], cam) <= Depth(list[j], cam)

\* C10 amended: in a tree whose linked nodes are all live and classified
\* consistently (as after inserts alone with unchanged positions), an item
\* that precedes another in the returned list has no greater projection onto
\* the partition normal; that is front to back for a camera looking along the
\* normal and back to front for one looking against it.
C10_OrderedAlongNormal ==
    \A cam \in Cameras, chk \in BOOLEAN :
        (NoDangling /\ ClassificationOK) =>
            LET list == getCurrentFrontItems(result, cam, chk)
            IN \A i, j \in 1 .. Len(list) :
                   i < j =>
                       /\ Zof(list[i]) <= Zof(list[j])
                       /\ cam.Front = normal =>
                              Depth(list[i], cam) <= Depth(list[j], cam)
                       /\ cam.Front = Negated(normal) =>
                              Depth(list[i], cam) >= Depth(list[j], cam)

\* a consistently classified tree right after a query that listed two items
\* of different z
C10_Witness ==
    /\ NoDangling /\ ClassificationOK
    /\ result = getAllFrontItems(Root, AllSeeing, <<>>, FALSE)
    /\ \E i, j \in 1 .. Len(result) : i < j /\ Zof(result[i]) < Zof(result[j])

\* C11: the query is complete: every resident item that lies in front of the
\* camera and, with the filter on, inside the frustum is in the returned list,
\* whatever the visibility of its ancestors.
C11_QueryComplete ==
    \A cam \in Cameras, chk \in BOOLEAN :
        NoDangling =>
            \A o \in Items :
                (/\ Resident(o)
                 /\ Depth(o, cam) > 0
                 /\ (chk => isPointInFrustum(position[o], cam))) =>
                    o \in SeqToSet(getCurrentFrontItems(result, cam, chk))

\* C12: the query is sound: every item of the returned list anchors a node the
\* root leads to, lies in front of the camera and, with the filter on, passes
\* the frustum test; no item is listed twice and the list is no longer than
\* the number of nodes.
C12_QuerySound ==
    \A cam \in Cameras, chk \in BOOLEAN :
        LET list == getCurrentFrontItems(result, cam, chk)
        IN /\ \A k \in 1 .. Len(list) :
                  /\ AnchorLinked(list[k])
                  /\ Depth(list[k], cam) > 0
                  /\ chk => isPointInFrustum(position[list[k]], cam)
           /\ \A i, j \in 1 .. Len(list) : i < j => list[i] # list[j]
           /\ Len(list) <= Cardinality(Linked)

\* right after a filtered query that listed two items and left out a resident
\* item lying in front of the camera but outside the frustum
C12_Witness ==
    \E cam \in Cameras :
        /\ NoDangling
        /\ result = getAllFrontItems(Root, cam, <<>>, TRUE)
        /\ Len(result) >= 2
        /\ \E o \in Items :
               /\ Resident(o)
               /\ Depth(o, cam) > 0
               /\ ~isPointInFrustum(position[o], cam)
               /\ o \notin SeqToSet(result)

\* C13: the mesh selection partitions the distances three ways at 8 and 19:
\* below 8 the high-detail mesh, from 8 to 19 inclusive the low-detail mesh,
\* above 19 nothing; exactly one outcome per distance, and 7.999 -> high,
\* 8.0 -> low, 19.0 -> low, 19.001 -> none.
C13_LodPartition ==
    lod.mesh # "unset" =>
        /\ lod.mesh \in {"high", "low", "none"}
        /\ lod.mesh = "high" <=> lod.distance < 8000
        /\ lod.mesh = "low" <=> (8000 <= lod.distance /\ lod.distance <= 19000)
        /\ lod.mesh = "none" <=> lod.distance > 19000
        /\ lod.distance = 7999 => lod.mesh = "high"
        /\ lod.distance = 8000 => lod.mesh = "low"
        /\ lod.distance = 19000 => lod.mesh = "low"
        /\ lod.distance = 19001 => lod.mesh = "none"

\* the selection has just drawn the low-detail mesh at distance 19.0
C13_Witness == lod.distance = 19000 /\ lod.mesh = "low"

\* C14: for a camera with an orthonormal basis, a point on the forward axis at
\* a depth between the near and the far distance passes the frustum test.
C14_OnAxisVisible ==
    (/\ frustum.tested
     /\ \E d \in NearPlane .. FarPlane :
            frustum.point = Add(frustum.camera.Position, Scale(frustum.camera.Front, d))) =>
        frustum.visible

\* the test has just passed the point 50 units down the forward axis
C14_Witness ==
    /\ frustum.tested
    /\ frustum.point = Add(frustum.camera.Position, Scale(frustum.camera.Front, 5000))
    /\ frustum.visible

\* C15 as stated: remove(o) destroys the matched node but not o: o is still a
\* live object after the call returns.
C15_RemoveReturnsOwnership ==
    [][\A o \in Items \ {rootItem} :
          (/\ Resident(o) /\ NoDangling
           /\ RemoveFind(Root, o).found
           /\ Remove(o)
           /\ ~fault') => ~ItemReleased(o)'
      ]_vars

\* C15 amended: when remove(o) matches a node and returns, it has destroyed o
\* together with the node: o is no longer a live object.
C15_RemoveDestroysAnchor ==
    [][\A o \in Items :
          (/\ partitionItem[Root] # NULL
           /\ RemoveFind(Root, o).found
           /\ Remove(o)
           /\ ~fault') => itemState'[o] = "removed"
      ]_vars

\* a removal has destroyed an anchor and left a tree without dangling links
C15_Witness ==
    \E o \in Items :
        /\ itemState[o] = "removed"
        /\ ~AnchorLinked(o)
        /\ NoDangling

\* no removal has matched a node so far: the tree was built by inserts alone
NeverRemoved == \A i \in Items : itemState[i] # "removed"

\* C16: destroying the scene manager of a tree built by inserts releases every
\* descendant node together with its anchor, each exactly once.
C16_TeardownReleasesAll ==
    [][(Teardown /\ NeverRemoved) =>
          /\ ~fault'
          /\ nodeState'[Root] = "freed"
          /\ \A n \in Linked \ {Root} :
                /\ nodeState[n] = "live" /\ nodeState'[n] = "freed"
                /\ itemState[partitionItem[n]] = "owned"
                /\ itemState'[partitionItem[n]] = "freed"
                /\ DeleteCount(Root, n) = 1
      ]_vars

\* a tree with a front and a back subtree, built by inserts alone, has been
\* torn down
C16_Witness ==
    /\ nodeState[Root] = "freed" /\ ~fault
    /\ NeverRemoved
    /\ front[Root] # NULL /\ back[Root] # NULL
    /\ \A n \in Linked \ {Root} :
          nodeState[n] = "freed" /\ itemState[partitionItem[n]] = "freed"

\* C17: the root anchor is never removable: remove(rootItem) leaves every
\* node, link, anchor and object as it was, and whatever step is taken the
\* root node keeps rootItem as its anchor and rootItem stays live.
C17_RootNeverRemoved ==
    [][partitionItem[Root] = rootItem =>
          /\ partitionItem'[Root] = rootItem
          /\ itemState'[rootItem] = "owned"
          /\ Remove(rootItem) => UNCHANGED <<position, heap, result>>
      ]_vars

\* after inserts and a removal, the descent of remove(rootItem) passes the
\* root and a further node without a match
C17_Witness ==
    /\ Alive /\ NoDangling
    /\ partitionItem[Root] = rootItem /\ itemState[rootItem] = "owned"
    /\ \E i \in Items : itemState[i] = "removed"
    /\ LET r == RemoveFind(Root, rootItem)
       IN ~r.found /\ Cardinality(r.visited) >= 2

\* C18: on a root constructed without an anchor, a query returns the empty
\* list, remove changes nothing, and neither crashes.
C18_EmptyTreeBenign ==
    [][partitionItem[Root] = NULL =>
          /\ \A o \in Items :
                Remove(o) => (~fault' /\ UNCHANGED <<position, heap, result>>)
          /\ \A cam \in Cameras, chk \in BOOLEAN :
                Query(cam, chk) => (~fault' /\ result' = <<>>)
      ]_vars

\* C19 as stated: within a frame a position changes only by the object's own
\* update step, so only a FireFly's position ever changes.
C19_PositionOnlyByMove ==
    [][\A i \in Items : position'[i] # position[i] => IsFireFly(i)]_vars

\* C19 amended: a position changes only in a frame whose visible list holds
\* the object, by the object's own render (which sets it to the rendered
\* world position) and, for a FireFly, its own move; objects not in the list
\* keep their position.
C19_PositionOnlyByOwnRender ==
    [][\A i \in Items :
          position'[i] # position[i] =>
              /\ i \in SeqToSet(result')
              /\ \E cam \in Cameras, chk \in BOOLEAN : RenderScene(cam, chk)
              /\ IF IsFireFly(i)
                     THEN position'[i] \in MoveTargets(Add(transformData(i), position[i]))
                     ELSE position'[i] = Add(transformData(i), TableLocalOffset)
      ]_vars

\* a frame has rendered a table to its world position while a resident item
\* outside the visible list kept the position it was constructed at
C19_Witness ==
    \E i, j \in Items :
        /\ ~IsFireFly(i) /\ transformData(i) = TableTranslation
        /\ i \in SeqToSet(result)
        /\ position[i] = Add(TableTranslation, TableLocalOffset)
        /\ Resident(j) /\ j \notin SeqToSet(result)
        /\ position[j] \in CtorPositions \ {startPosition}

\* C20: for the visible list of a frame, renderScene calls render once on each
\* item in list order, and each FireFly gets exactly one move, right after its
\* own render and before the next render.
C20_RenderOncePerItem ==
    LET calls == FrameCalls(result)
        isRender(c) == c.op = "render"
        renders == SelectSeq(calls, isRender)
    IN /\ Len(renders) = Len(result)
       /\ \A k \in 1 .. Len(result) : renders[k].item = result[k]
       /\ \A k \in 1 .. Len(calls) :
             /\ calls[k].op \in {"render", "move"}
             /\ calls[k].op = "move" =>
                    /\ IsFireFly(calls[k].item)
                    /\ k > 1
                    /\ calls[k - 1] = [op |-> "render", item |-> calls[k].item]
             /\ (calls[k].op = "render" /\ IsFireFly(calls[k].item)) =>
                    /\ k < Len(calls)
                    /\ calls[k + 1] = [op |-> "move", item |-> calls[k].item]

\* a frame has rendered a table followed by the firefly, and moved the firefly
C20_Witness ==
    /\ Alive /\ NoDangling
    /\ Len(result) >= 3
    /\ result[Len(result)] = MaxItems
    /\ \E k \in 1 .. Len(result) - 1 :
          /\ transformData(result[k]) = TableTranslation
          /\ position[result[k]] = Add(TableTranslation, TableLocalOffset)
    /\ position[MaxItems][1] # 0

\* C21: InvertFront keeps the yaw within 0 to 360 degrees, whatever yaw the
\* constructor, the mouse and earlier inversions have produced.
C21_YawInRange ==
    [][InvertFront => (0 <= euler'.Yaw /\ euler'.Yaw <= 3600)]_vars

\* projection of item i onto the normal (0,0,1), relative to the anchor of n
Proj(i, n) == Dot(Sub(position[i], position[partitionItem[n]]), <<0, 0, 1>>)

\* from n, going front on a projection >= 0 and back on one < 0 against each
\* node's own anchor, the descent for item reaches target
RECURSIVE Descends(_, _, _)
Descends(n, target, item) ==
    \/ n = target
    \/ LET c == IF Proj(item, n) >= 0 THEN front[n] ELSE back[n]
       IN c # NULL /\ Descends(c, target, item)

\* C22: an insert that returns has descended from the root, front on a
\* projection >= 0 and back on one < 0 against each node's own anchor, and has
\* created exactly one leaf anchored on the object in the first empty slot of
\* that path; every other node, anchor, link and position is as before.
C22_InsertAddsOneLeaf ==
    [][\A item \in Items :
          (itemState[item] = "new" /\ itemState'[item] = "owned") =>
              \E nn \in Nodes, parent \in Nodes :
                  /\ nodeState[nn] = "unalloc"
                  /\ nodeState' = [nodeState EXCEPT ![nn] = "live"]
                  /\ partitionItem' = [partitionItem EXCEPT ![nn] = item]
                  /\ front'[nn] = NULL /\ back'[nn] = NULL
                  /\ Descends(Root, parent, item)
                  /\ \/ /\ Proj(item, parent) >= 0
                        /\ front[parent] = NULL
                        /\ front' = [front EXCEPT ![parent] = nn]
                        /\ back' = back
                     \/ /\ Proj(item, parent) < 0
                        /\ back[parent] = NULL
                        /\ back' = [back EXCEPT ![parent] = nn]
                        /\ front' = front
                  /\ itemState' = [itemState EXCEPT ![item] = "owned"]
                  /\ UNCHANGED <<position, result, fault>>
      ]_vars

\* an insert has put an object of zero projection in the front slot of a node
\* below the root
C22_Witness ==
    /\ NeverRemoved /\ Unmoved /\ Alive
    /\ \E n \in Linked \ {Root} :
          /\ front[n] # NULL
          /\ Proj(partitionItem[front[n]], n) = 0

\* C23: in a tree built by inserts alone, with positions as at insertion, every
\* object below the front link of a node has a projection >= 0 relative to that
\* node's anchor and every object below its back link a projection < 0.
C23_InsertClassifies ==
    (NeverRemoved /\ Unmoved) =>
        \A n \in Linked :
            /\ \A m \in Subtree(front[n], front, back) : Proj(partitionItem[m], n) >= 0
            /\ \A m \in Subtree(back[n], front, back) : Proj(partitionItem[m], n) < 0

\* inserts alone have built a tree with a back subtree two levels deep and a
\* front subtree
C23_Witness ==
    /\ NeverRemoved /\ Unmoved /\ Alive
    /\ front[Root] # NULL
    /\ back[Root] # NULL
    /\ (front[back[Root]] # NULL \/ back[back[Root]] # NULL)

\* position of x in a list that holds it
IndexOf(list, x) == CHOOSE k \in 1 .. Len(list) : list[k] = x
\* anchors of the nodes under n
AnchorsUnder(n) == {partitionItem[m] : m \in Subtree(n, front, back)}
\* the node's anchor passes the test of getAllFrontItems
Emits(n, cam, chk) ==
    partitionItem[n] # NULL /\ isInFront(n, cam) /\ isInFrustum(n, cam, chk)

\* C24: when a node's anchor is in front of the camera and passes the frustum
\* filter (or the filter is off), every object the query lists from the node's
\* back subtree precedes the anchor in the list and every object it lists from
\* the front subtree follows the anchor.
C24_BackAnchorFront ==
    \A cam \in Cameras, chk \in BOOLEAN :
        LET list == getCurrentFrontItems(result, cam, chk)
            listed == SeqToSet(list)
        IN \A n \in Linked :
              Emits(n, cam, chk) =>
                  /\ \A o \in AnchorsUnder(back[n]) \cap listed :
                         /\ partitionItem[n] \in listed
                         /\ IndexOf(list, o) < IndexOf(list, partitionItem[n])
                  /\ \A o \in AnchorsUnder(front[n]) \cap listed :
                         /\ partitionItem[n] \in listed
                         /\ IndexOf(list, partitionItem[n]) < IndexOf(list, o)

\* right after a query that listed an anchor together with an object of its
\* back subtree and an object of its front subtree
C24_Witness ==
    \E cam \in Cameras, chk \in BOOLEAN, n \in Linked :
        /\ NoDangling /\ Alive
        /\ result = getAllFrontItems(Root, cam, <<>>, chk)
        /\ Emits(n, cam, chk)
        /\ partitionItem[n] \in SeqToSet(result)
        /\ AnchorsUnder(back[n]) \cap SeqToSet(result) # {}
        /\ AnchorsUnder(front[n]) \cap SeqToSet(result) # {}

ParentLinks(x, S, fr) ==
    {<<p, "front">> : p \in {q \in S : fr[q] = x}} \cup
    {<<p, "back">> : p \in {q \in S : back[q] = x}}

\* C26: mergeSubtrees(frontSub, backSub) returns the other subtree, with no
\* link changed, when either is empty; otherwise it returns frontSub with
\* backSub attached as the front child of the deepest node of frontSub's front
\* chain and no other link changed, so the result holds exactly the nodes of
\* both subtrees, which are disjoint, and is a tree: no link leads to its root
\* and exactly one leads to each other node.
C26_MergeSubtrees ==
    \A t \in Linked :
        LET f == front[t]
            b == back[t]
            m == mergeSubtrees(f, b)
            F == Subtree(f, front, back)
            B == Subtree(b, front, back)
            S == Subtree(m.root, m.front, back)
        IN /\ f = NULL => (m.root = b /\ m.front = front)
           /\ b = NULL => (m.root = f /\ m.front = front)
           /\ (f # NULL /\ b # NULL) =>
                 /\ m.root = f
                 /\ \E d \in FrontChain(f) :
                        /\ front[d] = NULL
                        /\ m.front = [front EXCEPT ![d] = b]
                 /\ F \cap B = {}
                 /\ S = F \cup B
                 /\ ParentLinks(m.root, S, m.front) = {}
                 /\ \A x \in S \ {m.root} :
                        Cardinality(ParentLinks(x, S, m.front)) = 1

\* a remove has merged the two subtrees of the node it deleted: the back
\* subtree now hangs at the end of the front chain of the front subtree
C26_Witness ==
    \E t \in Nodes :
        /\ ~fault
        /\ nodeState[t] = "freed"
        /\ front[t] # NULL
        /\ back[t] # NULL
        /\ \E d \in FrontChain(front[t]) : front[d] = back[t]

\* C27: on a tree whose root has an anchor, no insert, remove, query, frame or
\* teardown releases a node or an anchor twice or reads released memory, and no
\* live node keeps a front or back pointer to a released node.
C27_ExclusiveOwnership ==
    partitionItem[Root] # NULL =>
        /\ ~fault
        /\ \A n \in Nodes :
               nodeState[n] = "live" =>
                   /\ front[n] # NULL => nodeState[front[n]] # "freed"
                   /\ back[n] # NULL => nodeState[back[n]] # "freed"

\* s can be obtained from t by deleting elements
RECURSIVE IsSubseq(_, _)
IsSubseq(s, t) ==
    IF s = <<>> THEN TRUE
    ELSE IF t = <<>> THEN FALSE
    ELSE IF Head(s) = Head(t) THEN IsSubseq(Tail(s), Tail(t))
    ELSE IsSubseq(s, Tail(t))

\* C28: for every tree and camera the list the query returns with
\* checkFrustum = true is a subsequence of the list it returns with
\* checkFrustum = false: the filter removes items and keeps the order.
C28_FilterOnlyRemoves ==
    \A cam \in Cameras :
        IsSubseq(getCurrentFrontItems(result, cam, TRUE),
                 getCurrentFrontItems(result, cam, FALSE))

\* right after a filtered query that kept two items or more and dropped at
\* least one item the unfiltered query lists
C28_Witness ==
    \E cam \in Cameras :
        /\ NoDangling /\ Alive
        /\ result = getAllFrontItems(Root, cam, <<>>, TRUE)
        /\ Len(result) >= 2
        /\ Len(getAllFrontItems(Root, cam, <<>>, FALSE)) > Len(result)

\* the node an object anchors; nodes are allocated in insertion order
NodeOf(o) == CHOOSE n \in Nodes : partitionItem[n] = o
\* a comes before b in the tree's in-order: lower z first, objects of equal z
\* in insertion order
InOrderBefore(a, b) ==
    \/ Zof(a) < Zof(b)
    \/ Zof(a) = Zof(b) /\ NodeOf(a) < NodeOf(b)
\* the elements of s that are in S, in the order of s
RECURSIVE Restrict(_, _)
Restrict(s, S) ==
    IF s = <<>> THEN <<>>
    ELSE IF Head(s) \in S THEN <<Head(s)>> \o Restrict(Tail(s), S)
    ELSE Restrict(Tail(s), S)

\* C29: the emitted order is the tree's in-order and does not depend on the
\* camera. For a tree built by inserts alone with positions unchanged, the
\* unfiltered query of a camera every resident object is in front of returns
\* every resident object exactly once in non-decreasing z, objects of equal z in
\* insertion order with the root anchor first among its equals; and for any two
\* cameras and filter settings the items common to both lists are in the same
\* relative order.
C29_InOrderAnyCamera ==
    /\ (NeverRemoved /\ Unmoved /\ nodeState[Root] = "live") =>
          \A cam \in Cameras :
              (\A o \in Items : Resident(o) => Depth(o, cam) > 0) =>
                  LET list == getCurrentFrontItems(result, cam, FALSE)
                  IN /\ SeqToSet(list) = {o \in Items : Resident(o)}
                     /\ \A i, j \in 1 .. Len(list) :
                            i < j => InOrderBefore(list[i], list[j])
    /\ LET lists == [cam \in Cameras, chk \in BOOLEAN |->
                         getCurrentFrontItems(result, cam, chk)]
       IN \A q1, q2 \in DOMAIN lists :
             LET common == SeqToSet(lists[q1]) \cap SeqToSet(lists[q2])
             IN Restrict(lists[q1], common) = Restrict(lists[q2], common)

\* right after an unfiltered query of a tree built by inserts alone that listed
\* the root anchor, a later object of the same z and an object of another z
C29_Witness ==
    \E cam \in Cameras :
        /\ NeverRemoved /\ Unmoved /\ Alive
        /\ \A o \in Items : Resident(o) => Depth(o, cam) > 0
        /\ result = getAllFrontItems(Root, cam, <<>>, FALSE)
        /\ \E i, j \in 1 .. Len(result) :
               /\ i < j
               /\ result[i] = partitionItem[Root]
               /\ Zof(result[i]) = Zof(result[j])
        /\ \E i, j \in 1 .. Len(result) : Zof(result[i]) < Zof(result[j])

\* the calls of the frame hold a call `op` on item i
Receives(calls, op, i) ==
    \E k \in 1 .. Len(calls) : calls[k] = [op |-> op, item |-> i]

\* C30: a FireFly is updated in a frame if and only if it is in that frame's
\* visible list: the loop over the list calls its render and its move exactly
\* when the list holds it, and in every step that leaves it out of the visible
\* list its position stays as it was.
C30_FireFlyFrozenWhenExcluded ==
    [][\A i \in Items :
          IsFireFly(i) =>
              /\ (i \notin SeqToSet(result')) => position'[i] = position[i]
              /\ (i \in SeqToSet(result')) <=> Receives(FrameCalls(result'), "render", i)
              /\ (i \in SeqToSet(result')) <=> Receives(FrameCalls(result'), "move", i)
      ]_vars

\* the firefly has been moved by an earlier frame and is resident, and the
\* latest visible list holds other items but not the firefly
C30_Witness ==
    \E i \in Items :
        /\ IsFireFly(i)
        /\ NoDangling /\ Alive
        /\ Resident(i)
        /\ position[i] \notin CtorPositions
        /\ result # <<>>
        /\ i \notin SeqToSet(result)

====
